---- MODULE Spec2Model ----
(***************************************************************************)
(* NotificationList / Notification of crates/ui/src/notification.rs.       *)
(*                                                                         *)
(* The list owns a Vec of view handles.  Every handle is the only strong   *)
(* reference to its Notification entity: the timer task (cx.spawn), the    *)
(* event listeners (cx.listener) and the subscription (cx.subscribe) hold  *)
(* weak references, so an entity is alive exactly while its handle is in   *)
(* the Vec.  The application runs on one event loop: a turn (push, clear,  *)
(* a frame, a timer wake-up, a mouse click) runs to its end and then the   *)
(* effects it queued with cx.emit are flushed before the next turn starts. *)
(***************************************************************************)
EXTENDS Integers, Sequences, FiniteSets, TLC

\* ---------------------------------------------------------------- bounds
MaxViews == 3        \* views created by push in one behaviour of Spec
MaxTimers == 2       \* pending autohide tasks per view
MaxBacklog == 11     \* length of the longest list SpecBacklog starts from

\* ------------------------------------------------------ program constants
RenderWindow == 10   \* .take(10)

\* ----------------------------------------------------------------- inputs
ExplicitIds == {<<"id", 1>>}           \* ids given through with_id
NoId == <<"none", 0>>
CallbackEffects == {"none", "push_same_id", "clear"}
\* .autohide(..) and .on_click(..) of the notifications the application builds:
\* an autohide one with a click callback, and a sticky one without.
Kinds == {<<TRUE, TRUE>>, <<FALSE, FALSE>>}

VARIABLES
    notifications,    \* NotificationList.notifications: Vec<View<Notification>>
    next_view,        \* the entity id the next cx.new_view returns
    timers,           \* pending autohide tasks per view (weak references)
    pending_effects,  \* emitters of the DismissEvents queued in the current turn
    dirty,            \* the list was notified and has not been rendered since
    rendered,         \* the views of the last frame
    subscriptions,    \* per view, the id the closure of its subscription captured
    removed_by,       \* per view, what took it out of the list ("" while in it)
    lastOp            \* the step taken last

vars == <<notifications, next_view, timers, pending_effects, dirty, rendered,
          subscriptions, removed_by, lastOp>>

\* ---------------------------------------------------------------- helpers
Range(s) == {s[i] : i \in 1..Len(s)}

Handles(s) == {s[i].view : i \in 1..Len(s)}

Ids(s) == {s[i].id : i \in 1..Len(s)}

Min(a, b) == IF a < b THEN a ELSE b

\* uuid::Uuid::new_v4(): an id no other notification has.
NewUuid(n) == <<"uuid", n>>

\* Notification::new(..).with_id(..).autohide(..).on_click(..), wrapped by
\* cx.new_view into the view h.
Notification(h, id, autohide, on_click) ==
    [view |-> h, id |-> id, autohide |-> autohide, on_click |-> on_click]

Op(op, view, id, calls, src) ==
    [op |-> op, view |-> view, id |-> id, calls |-> calls, src |-> src]

\* The views that leave the list s in a step to the list t are marked with cause.
Mark(rb, s, t, cause) ==
    [h \in DOMAIN rb |-> IF h \in Handles(s) \ Handles(t) THEN cause ELSE rb[h]]

\* What is recorded of a released view is dropped once no task and no queued
\* effect refers to it any more.
Forget(f, s, t, eff, none) ==
    [h \in DOMAIN f |->
        IF h \in Handles(s) \/ t[h] > 0 \/ h \in Range(eff) THEN f[h] ELSE none]

\* ------------------------------------------------------- NotificationList
\* self.notifications.retain(|note| note.read(cx).id != id)
RetainKeepAll(s, id) == s
RetainCapped(s, id) ==
    LET r == SelectSeq(s, LAMBDA note : note.id # id)
    IN  IF Len(r) >= RenderWindow THEN Tail(r) ELSE r
Retain(s, id) == SelectSeq(s, LAMBDA note : note.id # id)

\* view.notifications.retain(|note| id != note.read(cx).id), the subscriber
RemoveLast(s, id) == IF s = <<>> THEN s ELSE SubSeq(s, 1, Len(s) - 1)
OnDismiss(s, id) == SelectSeq(s, LAMBDA note : id # note.id)

\* WeakView::upgrade: the entity is alive while a strong handle exists, and
\* the Vec holds the only one.
UpgradeAlways(h, s) == TRUE
Upgrade(h, s) == h \in Handles(s)

\* .iter().rev().take(10).rev().cloned().collect()
First10(s) == SubSeq(s, 1, Min(Len(s), RenderWindow))
Last10(s) == SubSeq(s, Len(s) - Min(Len(s), RenderWindow) + 1, Len(s))

\* NotificationList::push, on the list s with the new view h
PushRecycled(s, h, id, autohide, on_click) ==
    LET old == {s[i].view : i \in {j \in 1..Len(s) : s[j].id = id}}
    IN  Append(SelectSeq(s, LAMBDA note : note.id # id),
               Notification(IF old = {} THEN h ELSE CHOOSE v \in old : TRUE,
                            id, autohide, on_click))
PushAppendFirst(s, h, id, autohide, on_click) ==
    <<Notification(h, id, autohide, on_click)>> \o Retain(s, id)
PushInto(s, h, id, autohide, on_click) ==
    Append(Retain(s, id), Notification(h, id, autohide, on_click))

\* self.notifications.clear()
ClearKeepNewest(s) == IF s = <<>> THEN s ELSE <<s[Len(s)]>>
Cleared(s) == <<>>

\* Notification::perform_autohide for every view the frame renders
ArmAll(frame, t) ==
    [h \in DOMAIN t |->
        IF \E i \in 1..Len(frame) : frame[i].view = h THEN t[h] + 1 ELSE t[h]]
ArmEveryView(frame, t) ==
    [h \in DOMAIN t |-> IF frame # <<>> THEN t[h] + 1 ELSE t[h]]
Arm(frame, t) ==
    [h \in DOMAIN t |->
        IF \E i \in 1..Len(frame) : frame[i].view = h /\ frame[i].autohide
        THEN t[h] + 1 ELSE t[h]]

\* cx.notify() at the end of push and of clear: the list is dirty afterwards,
\* whatever the call did to the list (d: dirty before, s and t: the list
\* before and after).
NotifyIfChanged(d, s, t) == d \/ s # t
Notify(d, s, t) == TRUE

\* cx.emit(DismissEvent) by the view h only queues the event: the list is as
\* it was until the subscription of the list handles it.
EmitRemovesNow(s, h) == SelectSeq(s, LAMBDA note : note.view # h)
Emitted(s, h) == s

\* on_click(event, cx) in the listener: the calls of the callback per click
CallNever(note, cb) == 0
Calls(note, cb) == 1

\* ------------------------------------------------------------------ state
Init ==
    /\ notifications = <<>>
    /\ next_view = 1
    /\ timers = <<>>
    /\ pending_effects = <<>>
    /\ dirty = TRUE
    /\ rendered = <<>>
    /\ subscriptions = <<>>
    /\ removed_by = <<>>
    /\ lastOp = Op("new", 0, NoId, 0, "")

\* ---------------------------------------------------------------- actions
\* NotificationList::push called by the application
PushUpTo(limit, id, autohide, on_click) ==
    /\ pending_effects = <<>>
    /\ next_view <= limit
    /\ notifications' = PushInto(notifications, next_view, id, autohide, on_click)
    /\ timers' = Append(timers, 0)
    /\ next_view' = next_view + 1
    /\ dirty' = Notify(dirty, notifications, notifications')
    /\ UNCHANGED <<pending_effects, rendered>>
    /\ subscriptions' =
          Forget(Append(subscriptions, id), notifications', timers', <<>>, NoId)
    /\ removed_by' =
          Forget(Append(Mark(removed_by, notifications, notifications', "push"), ""),
                 notifications', timers', <<>>, "")
    /\ lastOp' = Op("push", next_view, id, 0,
                    IF id \in Ids(notifications) THEN "replace" ELSE "append")

Push(id, autohide, on_click) == PushUpTo(MaxViews, id, autohide, on_click)

\* NotificationList::clear called by the application
Clear ==
    /\ pending_effects = <<>>
    /\ notifications' = Cleared(notifications)
    /\ dirty' = Notify(dirty, notifications, notifications')
    /\ UNCHANGED <<next_view, timers, pending_effects, rendered>>
    /\ subscriptions' = Forget(subscriptions, notifications', timers, <<>>, NoId)
    /\ removed_by' = Forget(Mark(removed_by, notifications, notifications', "clear"),
                            notifications', timers, <<>>, "")
    /\ lastOp' = Op("clear", 0, NoId, 0, "")

\* A frame: NotificationList::render and Notification::render of each child
Render ==
    /\ pending_effects = <<>>
    /\ dirty
    /\ \A i \in 1..Len(Last10(notifications)) :
           timers[Last10(notifications)[i].view] < MaxTimers
    /\ rendered' = Last10(notifications)
    /\ timers' = Arm(Last10(notifications), timers)
    /\ dirty' = FALSE
    /\ lastOp' = Op("render", 0, NoId, 0, "")
    /\ UNCHANGED <<notifications, next_view, pending_effects, subscriptions, removed_by>>

\* Timer::after(5s) of one task elapses: view.update(.., cx.emit(DismissEvent))
TimerExpire(h) ==
    /\ pending_effects = <<>>
    /\ h \in DOMAIN timers
    /\ timers[h] > 0
    /\ timers' = [timers EXCEPT ![h] = @ - 1]
    /\ pending_effects' = IF Upgrade(h, notifications) THEN <<h>> ELSE <<>>
    /\ notifications' = IF Upgrade(h, notifications)
                        THEN Emitted(notifications, h) ELSE notifications
    /\ UNCHANGED <<next_view, dirty, rendered>>
    /\ subscriptions' =
          Forget(subscriptions, notifications, timers', pending_effects', NoId)
    /\ removed_by' = Forget(removed_by, notifications, timers', pending_effects', "")
    /\ lastOp' = Op("timer", h, subscriptions[h], 0, removed_by[h])

\* The close button of a rendered view is clicked: the listener runs
\* Notification::dismiss if the view can still be upgraded.
Close(h) ==
    /\ pending_effects = <<>>
    /\ \E i \in 1..Len(rendered) : rendered[i].view = h /\ ~rendered[i].autohide
    /\ Upgrade(h, notifications)
    /\ pending_effects' = <<h>>
    /\ notifications' = Emitted(notifications, h)
    /\ lastOp' = Op("close", h, subscriptions[h], 0, "")
    /\ UNCHANGED <<next_view, timers, dirty, rendered, subscriptions, removed_by>>

\* The click region of a rendered view is clicked: the on_click listener
\* emits DismissEvent and then calls the callback, which may use the list.
Click(h, cb) ==
    /\ pending_effects = <<>>
    /\ Upgrade(h, notifications)
    /\ pending_effects' = <<h>>
    /\ UNCHANGED rendered
    /\ \E i \in 1..Len(rendered) :
        /\ rendered[i].view = h
        /\ rendered[i].on_click
        /\ lastOp' = Op("click", h, subscriptions[h], Calls(rendered[i], cb), "")
        /\ CASE cb = "none" ->
                  /\ notifications' = Emitted(notifications, h)
                  /\ UNCHANGED <<next_view, timers, dirty, subscriptions, removed_by>>
             [] cb = "push_same_id" ->
                  /\ next_view <= MaxViews
                  /\ notifications' = PushInto(notifications, next_view,
                                                rendered[i].id, FALSE, FALSE)
                  /\ timers' = Append(timers, 0)
                  /\ next_view' = next_view + 1
                  /\ dirty' = Notify(dirty, notifications, notifications')
                  /\ subscriptions' =
                        Forget(Append(subscriptions, rendered[i].id),
                               notifications', timers', <<h>>, NoId)
                  /\ removed_by' =
                        Forget(Append(Mark(removed_by, notifications, notifications',
                                           "push"), ""),
                               notifications', timers', <<h>>, "")
             [] cb = "clear" ->
                  /\ notifications' = Cleared(notifications)
                  /\ dirty' = Notify(dirty, notifications, notifications')
                  /\ UNCHANGED <<next_view, timers>>
                  /\ subscriptions' =
                        Forget(subscriptions, notifications', timers, <<h>>, NoId)
                  /\ removed_by' =
                        Forget(Mark(removed_by, notifications, notifications', "clear"),
                               notifications', timers, <<h>>, "")

\* End of the turn: the queued emission is delivered to the subscription of
\* push, which runs only if the emitter can still be upgraded.
Flush ==
    /\ pending_effects # <<>>
    /\ pending_effects' = Tail(pending_effects)
    /\ UNCHANGED <<next_view, timers, dirty, rendered>>
    /\ LET h == Head(pending_effects)
       IN  /\ notifications' =
                 IF Upgrade(h, notifications)
                 THEN OnDismiss(notifications, subscriptions[h])
                 ELSE notifications
           /\ subscriptions' =
                 Forget(subscriptions, notifications', timers, pending_effects', NoId)
           /\ removed_by' =
                 Forget(Mark(removed_by, notifications, notifications', lastOp.op),
                        notifications', timers, pending_effects', "")
           /\ lastOp' = Op("flush", h, subscriptions[h], lastOp.calls, lastOp.op)

Next ==
    \/ \E id \in ExplicitIds \cup {NewUuid(next_view)}, kind \in Kinds :
          Push(id, kind[1], kind[2])
    \/ Clear
    \/ Render
    \/ \E h \in DOMAIN timers : TimerExpire(h)
    \/ \E h \in Handles(rendered) : Close(h)
    \/ \E h \in Handles(rendered), cb \in CallbackEffects : Click(h, cb)
    \/ Flush

Spec == Init /\ [][Next]_vars

\* ------------------------------------------------ a list longer than a frame
\* The list after n pushes of notifications built by Notification::new (one
\* turn, nothing rendered yet): none of them autohide, or the oldest one.
BacklogSizes == (MaxBacklog - 2)..MaxBacklog
BacklogModes == {"none", "oldest"}

Backlog(n, mode) ==
    [h \in 1..n |-> Notification(h, NewUuid(h), mode = "oldest" /\ h = 1, FALSE)]

InitBacklog ==
    \E n \in BacklogSizes, mode \in BacklogModes :
        /\ notifications = Backlog(n, mode)
        /\ next_view = n + 1
        /\ timers = [h \in 1..n |-> 0]
        /\ pending_effects = <<>>
        /\ dirty = TRUE
        /\ rendered = <<>>
        /\ subscriptions = [h \in 1..n |-> NewUuid(h)]
        /\ removed_by = [h \in 1..n |-> ""]
        /\ lastOp = Op("push", n, NewUuid(n), 0, "append")

\* The user closes the newest notification of the frame.
NextBacklog ==
    \/ \E autohide \in BOOLEAN :
          PushUpTo(MaxBacklog + 1, NewUuid(next_view), autohide, FALSE)
    \/ Render
    \/ \E h \in DOMAIN timers : TimerExpire(h)
    \/ rendered # <<>> /\ Close(rendered[Len(rendered)].view)
    \/ Flush

SpecBacklog == InitBacklog /\ [][NextBacklog]_vars

\* Timers elapse, frames are drawn while the list is dirty and every turn
\* ends with its effects flushed; pushes and clicks are up to the user.
Fairness ==
    /\ WF_vars(Render)
    /\ WF_vars(Flush)
    /\ \A h \in 1..(MaxBacklog + 1) : WF_vars(TimerExpire(h))

FairSpecBacklog == SpecBacklog /\ Fairness

\* ------------------------------------------------------------------ claims
\* C1: in every reachable state no two entries of the backing sequence have
\* the same id.
C1_UniqueIds ==
    \A i, j \in 1..Len(notifications) :
        i # j => notifications[i].id # notifications[j].id

\* A push of an id that was in the list has happened and left two entries.
C1_Witness ==
    /\ lastOp.op = "push"
    /\ lastOp.src = "replace"
    /\ Cardinality(Ids(notifications)) >= 2

\* C2: a push (by the application or by a click callback) of an id that is in
\* the list leaves exactly one entry with that id; it is the view just
\* created, it is the last entry, and the other entries are the entries of
\* the other ids, with their views, in the order they had.
C2_ReplaceIsLast ==
    [][(next_view' = next_view + 1 /\ subscriptions'[next_view] \in Ids(notifications))
        => LET id == subscriptions'[next_view]
               n == Len(notifications')
           IN  /\ n = Len(notifications)
               /\ Cardinality({i \in 1..n : notifications'[i].id = id}) = 1
               /\ notifications'[n].id = id
               /\ notifications'[n].view = next_view
               /\ next_view \notin Handles(notifications)
               /\ next_view \notin DOMAIN subscriptions
               /\ \E k \in 1..n :
                    /\ notifications[k].id = id
                    /\ \A i \in 1..(n - 1) :
                          notifications'[i] = notifications[IF i < k THEN i ELSE i + 1]
      ]_vars

\* The replaced id was not the newest one: an older entry was taken out from
\* under a newer one, which stays in front of the new view.
C2_Witness ==
    /\ lastOp.op = "push"
    /\ lastOp.src = "replace"
    /\ Len(notifications) >= 2
    /\ notifications[Len(notifications)].view = lastOp.view
    /\ \E h \in DOMAIN removed_by : removed_by[h] = "push" /\ h < notifications[1].view

\* C3: the autohide task of a view that is no longer in the list (replaced by
\* a push of its id, dismissed before, or cleared) emits nothing and changes
\* neither the list nor the frame; and the dismissal a timer does cause takes
\* out the view of that timer only, never the view that replaced it.
C3_StaleTimerNoop ==
    [][/\ (lastOp'.op = "timer" /\ lastOp'.view \notin Handles(notifications))
            => /\ notifications' = notifications
               /\ pending_effects' = <<>>
               /\ dirty' = dirty
               /\ rendered' = rendered
       /\ (lastOp'.op = "flush" /\ lastOp'.src = "timer")
            => /\ Handles(notifications) \ Handles(notifications') = {lastOp'.view}
               /\ Handles(notifications') \subseteq Handles(notifications)
      ]_vars

\* The task of a replaced view has elapsed while its replacement is in the list.
C3_Witness ==
    /\ lastOp.op = "timer"
    /\ lastOp.src = "push"
    /\ lastOp.view \notin Handles(notifications)
    /\ lastOp.id \in Ids(notifications)
    /\ pending_effects = <<>>

\* C4: over the lifetime of a view at most one autohide task is armed for it,
\* however often it is rendered.  (A task leaves `timers` only by elapsing, and
\* the first one to elapse takes the view out of the list for good.)
C4_ArmedAtMostOnce ==
    \A h \in DOMAIN timers : timers[h] <= 1

\* C5: every autohide notification in the list is eventually out of it, given
\* that timers elapse and frames are drawn, however many others are in the list.
C5_AutohideLeaves ==
    \A h \in 1..(MaxBacklog + 1) :
        [](((\E i \in 1..Len(notifications) :
                notifications[i].view = h /\ notifications[i].autohide))
            => <>(h \notin Handles(notifications)))

\* C6: a frame holds the last min(n, 10) of the n entries of the list, oldest
\* first, and rendering leaves the list as it is (the n - 10 oldest stay in it).
C6_RenderWindow ==
    [][lastOp'.op = "render"
        => LET n == Len(notifications)
               k == IF n < 10 THEN n ELSE 10
           IN  /\ notifications' = notifications
               /\ Len(rendered') = k
               /\ \A i \in 1..k : rendered'[i] = notifications[n - k + i]
      ]_vars

\* A list of more than ten entries has been rendered.
C6_Witness ==
    /\ lastOp.op = "render"
    /\ Len(notifications) > RenderWindow
    /\ Len(rendered) = RenderWindow
    /\ rendered[1] = notifications[Len(notifications) - RenderWindow + 1]

\* C7: when nothing is queued and no frame is due, the last frame shows no
\* view that is out of the list.
C7_NoStaleFrame ==
    (~dirty /\ pending_effects = <<>>) => Handles(rendered) \subseteq Handles(notifications)

\* C8: the close button belongs to a sticky view, and handling its dismissal
\* takes exactly that view out: the others stay, with their views, in order.
C8_CloseRemovesExactlyOne ==
    [][/\ lastOp'.op = "close"
            => \E i \in 1..Len(notifications) :
                  notifications[i].view = lastOp'.view /\ ~notifications[i].autohide
       /\ (lastOp'.op = "flush" /\ lastOp'.src = "close")
            => /\ lastOp'.view \in Handles(notifications)
               /\ notifications' =
                     SelectSeq(notifications, LAMBDA note : note.view # lastOp'.view)
      ]_vars

\* A view was closed from between two others, which are still in the list.
C8_Witness ==
    /\ lastOp.op = "flush"
    /\ lastOp.src = "close"
    /\ Len(notifications) = 2
    /\ notifications[1].view < lastOp.view
    /\ lastOp.view < notifications[2].view

\* C9: a click on the click region of a view calls the callback once and
\* queues one dismissal, no other turn starts before it is handled, and once
\* it is handled the view is out of the list, whatever the callback did.
C9_ClickDismissesAndCallsOnce ==
    [][/\ lastOp'.op = "click"
            => /\ lastOp'.calls = 1
               /\ pending_effects' = <<lastOp'.view>>
       /\ lastOp.op = "click" => lastOp'.op = "flush"
       /\ (lastOp'.op = "flush" /\ lastOp'.src = "click")
            => /\ lastOp'.calls = 1
               /\ lastOp'.view = lastOp.view
               /\ lastOp'.view \notin Handles(notifications')
               /\ pending_effects' = <<>>
      ]_vars

\* The dismissal of a click was handled while other views were in the list.
C9_Witness ==
    /\ lastOp.op = "flush"
    /\ lastOp.src = "click"
    /\ lastOp.calls = 1
    /\ lastOp.view \notin Handles(notifications)
    /\ notifications # <<>>

\* C10: clear empties the list whatever it held, and the autohide task of a
\* cleared view that elapses afterwards emits nothing and leaves the list,
\* with whatever was pushed since, as it is.
C10_ClearThenTimersNoop ==
    [][/\ lastOp'.op = "clear" => notifications' = <<>>
       /\ (lastOp'.op = "timer" /\ lastOp'.src = "clear")
            => /\ lastOp'.view \notin Handles(notifications)
               /\ notifications' = notifications
               /\ pending_effects' = <<>>
       /\ \A h \in DOMAIN removed_by :
             removed_by[h] = "clear" => h \notin Handles(notifications)
      ]_vars

\* The task of a cleared view elapsed after its id was pushed again.
C10_Witness ==
    /\ lastOp.op = "timer"
    /\ lastOp.src = "clear"
    /\ lastOp.id \in Ids(notifications)
    /\ lastOp.view \notin Handles(notifications)

\* C11: a push of an id that no entry has makes the list one longer at any
\* length, also beyond the ten a frame shows: the entries it had are all
\* there, with their views, in their order, and the view just created follows
\* them. The id Notification::new makes is never the id of an entry.
C11_AppendKeepsAll ==
    [][/\ NewUuid(next_view) \notin Ids(notifications)
       /\ (next_view' = next_view + 1 /\ lastOp'.id \notin Ids(notifications))
            => LET n == Len(notifications)
               IN  /\ Len(notifications') = n + 1
                   /\ SubSeq(notifications', 1, n) = notifications
                   /\ notifications'[n + 1].view = next_view
                   /\ notifications'[n + 1].id = lastOp'.id
      ]_vars

\* A push onto a list that already held more than a frame shows.
C11_Witness ==
    /\ lastOp.op = "push"
    /\ lastOp.src = "append"
    /\ Len(notifications) = MaxBacklog + 1
    /\ Len(notifications) > RenderWindow + 1

\* C12: a dismissal that finds nothing to take out changes nothing: the task
\* of a view that a click, the close button or an earlier task has already
\* dismissed emits nothing and leaves the list as it is; an emission whose id
\* no entry has leaves the list as it is when it is delivered; and clear of
\* an empty list leaves it empty.
C12_TeardownIdempotent ==
    [][/\ (lastOp'.op = "timer" /\ lastOp'.src \in {"click", "close", "timer"})
            => /\ notifications' = notifications
               /\ pending_effects' = <<>>
       /\ (lastOp'.op = "flush" /\ lastOp'.id \notin Ids(notifications))
            => notifications' = notifications
       /\ (lastOp'.op = "clear" /\ notifications = <<>>) => notifications' = <<>>
      ]_vars

\* The task of a view elapsed after a click had dismissed the view, with
\* other entries in the list.
C12_Witness ==
    /\ lastOp.op = "timer"
    /\ lastOp.src = "click"
    /\ notifications # <<>>
    /\ pending_effects = <<>>

\* C13: a view that has left the list is in no later list: no step puts a
\* view into the list other than the one it creates, and a push of an id
\* that is in the list puts in the view it creates and takes out the view
\* that had the id.
C13_NeverReinserted ==
    [][/\ \A h \in 1..(next_view - 1) :
             h \notin Handles(notifications) => h \notin Handles(notifications')
       /\ Handles(notifications') \ Handles(notifications) \subseteq {next_view}
       /\ next_view' = next_view + 1
            => LET note == notifications'[Len(notifications')]
               IN  /\ note.view = next_view
                   /\ \A i \in 1..Len(notifications) :
                         notifications[i].id = note.id
                            => notifications[i].view \notin Handles(notifications')
      ]_vars

\* The id of a view that a push took out is in the list again, with another
\* view, and a cleared view is out as well.
C13_Witness ==
    \E h, k \in DOMAIN removed_by :
        /\ removed_by[h] = "push"
        /\ removed_by[k] \in {"clear", "timer", "click"}
        /\ h \notin Handles(notifications)
        /\ k \notin Handles(notifications)
        /\ notifications # <<>>

\* C14: the list is in the order of the pushes: views are numbered as push
\* creates them, and an entry at a lower index has the lower number.
C14_OrderedByPushTime ==
    \A i, j \in 1..Len(notifications) :
        i < j => notifications[i].view < notifications[j].view

\* A dismissal took a view out from between two entries that are still in
\* the list.
C14_Witness ==
    /\ Len(notifications) >= 2
    /\ \E h \in DOMAIN removed_by :
          /\ removed_by[h] \in {"timer", "close", "click"}
          /\ notifications[1].view < h
          /\ h < notifications[Len(notifications)].view

\* C15: each source of a dismissal works only for the views that have it: a
\* task emits only for a view with autohide, the close button only for a
\* view without autohide, the click region only for a view with on_click. A
\* view with neither autohide nor on_click never has a pending task, and it
\* leaves the list only by its close button, by a push of its id, or by a
\* clear.
C15_OnlyEnabledSources ==
    [][/\ \A i \in 1..Len(notifications) :
             LET note == notifications[i]
             IN  /\ (lastOp'.op = "timer" /\ pending_effects' = <<note.view>>)
                        => note.autohide
                 /\ (lastOp'.op = "close" /\ lastOp'.view = note.view)
                        => ~note.autohide
                 /\ (lastOp'.op = "click" /\ lastOp'.view = note.view)
                        => note.on_click
                 /\ ~note.autohide => timers[note.view] = 0
                 /\ (~note.autohide /\ ~note.on_click
                        /\ note.view \notin Handles(notifications'))
                        => \/ lastOp'.op = "flush" /\ lastOp'.src = "close"
                                /\ lastOp'.view = note.view
                           \/ lastOp'.op = "push" /\ lastOp'.id = note.id
                           \/ lastOp'.op = "clear"
                           \/ lastOp'.op = "click" /\ notifications' = <<>>
       /\ lastOp'.op \in {"timer", "close", "click"}
            => pending_effects' \in {<<>>, <<lastOp'.view>>}
      ]_vars

\* A task has dismissed a view with autohide while a view with neither
\* autohide nor on_click, shown in the same frame, stays in the list.
C15_Witness ==
    /\ lastOp.op = "flush"
    /\ lastOp.src = "timer"
    /\ lastOp.view \notin Handles(notifications)
    /\ \E i \in 1..Len(notifications) :
          /\ ~notifications[i].autohide
          /\ ~notifications[i].on_click
          /\ notifications[i].view \in Handles(rendered)
          /\ lastOp.view \in Handles(rendered)

\* C16: after every push and every clear, by the application or by a click
\* callback, the list is dirty, also when the push replaced an entry and when
\* the list cleared was empty.
C16_PushAndClearNotify ==
    [][(\/ lastOp'.op \in {"push", "clear"}
        \/ next_view' = next_view + 1
        \/ lastOp'.op = "click" /\ notifications' # notifications)
            => dirty'
      ]_vars

\* A clear of a list that nothing was ever pushed to.
C16_Witness ==
    /\ lastOp.op = "clear"
    /\ next_view = 1
    /\ notifications = <<>>
    /\ dirty

\* C17: only push, clear and the delivery of a dismissal change the list. A
\* frame, a task that elapses, the close button and a click whose callback
\* does not use the list leave it as it is: the view that emits stays in the
\* list until the emission is delivered.
C17_OnlyListOpsChange ==
    [][/\ lastOp'.op \in {"render", "timer", "close"} => notifications' = notifications
       /\ (lastOp'.op = "click" /\ next_view' = next_view /\ notifications' # <<>>)
            => notifications' = notifications
       /\ lastOp'.op \in {"timer", "close", "click"}
            => \A h \in Handles(notifications) \ Handles(notifications') :
                  removed_by'[h] \in {"push", "clear", ""}
       /\ notifications' # notifications
            => lastOp'.op \in {"push", "clear", "flush", "click"}
      ]_vars

\* A click has emitted, its callback left the list alone, and the view
\* clicked is still in the list, with another one.
C17_Witness ==
    /\ lastOp.op = "click"
    /\ lastOp.calls = 1
    /\ pending_effects = <<lastOp.view>>
    /\ lastOp.view \in Handles(notifications)
    /\ Len(notifications) >= 2
    /\ ~dirty

C19_ArmedOnlyByRender ==
    [][/\ \A h \in DOMAIN timers :
             timers'[h] > timers[h]
                => /\ lastOp'.op = "render"
                   /\ \E i \in 1..Len(notifications) :
                         /\ i > Len(notifications) - RenderWindow
                         /\ notifications[i].view = h
                         /\ notifications[i].autohide
       /\ next_view' = next_view + 1 => timers'[next_view] = 0
       /\ lastOp'.op = "timer" => timers[lastOp'.view] > 0
      ]_vars

\* A task has dismissed a newer view while the oldest entry, which has
\* autohide and is outside the frame, has no task.
C19_Witness ==
    /\ lastOp.op = "flush"
    /\ lastOp.src = "timer"
    /\ Len(notifications) > RenderWindow
    /\ notifications[1].autohide
    /\ notifications[1].view \notin Handles(rendered)
    /\ timers[notifications[1].view] = 0

====
